---- MODULE Spec2Model ----
(***************************************************************************)
(* Model of process_graph_data (src/api/services/graph_service.py), of the  *)
(* validators it calls (src/api/data/validators.py), of GraphProcessor      *)
(* (src/core/graph_processor.py) and of DataManager's use of the 'temp'     *)
(* directory and of connections (src/api/data/data_manager.py), and of    *)
(* the global                                                              *)
(* MetricsTracker (src/api/utils/metrics.py).                              *)
(*                                                                         *)
(* A behaviour is one of several runs, chosen in Init: one call of         *)
(* process_graph_data on one request (pc is the position of the call in    *)
(* the function body, the vertex and edge tables are the DataFrames the    *)
(* call has loaded); a sequence of calls on one GraphProcessor; two        *)
(* calls of process_graph_data running concurrently in one working         *)
(* directory; one call with an SQL source and its database connection;     *)
(* or request threads calling track_query on the global tracker while      *)
(* its saver thread runs.  The variables of the runs not chosen keep       *)
(* their initial values.                                                   *)
(*                                                                         *)
(* Identifiers are sequences of one-character strings, so that             *)
(* str(x).strip() is computed and not assumed; the empty sequence is the   *)
(* empty string (Python-falsy, also standing for None).  Weight cells are  *)
(* the text of the cell, parsed by ParseFloat.                             *)
(***************************************************************************)
EXTENDS Integers, Sequences, FiniteSets, TLC

\* ------------------------------------------------------------------ bounds
MaxVRows == 3
MaxERows == 3
MaxDepthParam == 2
MaxThreads == 2

\* ------------------------------------------------------------- primitives
NoId == <<>>
NoSnapshot == ""

RECURSIVE LStrip(_)
LStrip(s) == IF s # <<>> /\ Head(s) = " " THEN LStrip(Tail(s)) ELSE s

RECURSIVE RStrip(_)
RStrip(s) == IF s # <<>> /\ s[Len(s)] = " " THEN RStrip(SubSeq(s, 1, Len(s) - 1)) ELSE s

\* str(x).strip()
Strip(s) == RStrip(LStrip(s))

\* pd.to_numeric(..., errors='coerce').notna() on one cell
IsNumeric(w) == w \in {"-1", "0", "2", "3"}

\* float(cell); only called on numeric cells (float raises otherwise)
ParseFloat(w) == CASE w = "-1" -> -1
                   [] w = "0" -> 0
                   [] w = "2" -> 2
                   [] w = "3" -> 3

\* int(x) of a float, given in tenths: the fraction is cut off towards zero
IntOfFloat(t) == IF t >= 0 THEN t \div 10 ELSE 0 - ((0 - t) \div 10)

\* whether int(s) of a string yields a number (it raises ValueError otherwise)
IsIntText(s) == s \in {"-1", "0", "1", "2"}

IntOfText(s) == CASE s = "-1" -> -1
                  [] s = "0" -> 0
                  [] s = "1" -> 1
                  [] s = "2" -> 2

\* int(value) for the value of the max_depth key: an int, a float (in tenths)
\* or a string
ToInt(md) ==
    CASE md.kind = "int" -> [raises |-> FALSE, val |-> md.val]
      [] md.kind = "float" -> [raises |-> FALSE, val |-> IntOfFloat(md.val)]
      [] md.kind = "str" -> IF IsIntText(md.val)
                            THEN [raises |-> FALSE, val |-> IntOfText(md.val)]
                            ELSE [raises |-> TRUE, val |-> 0]

Range(s) == {s[i] : i \in DOMAIN s}

RECURSIVE SumOver(_, _)
SumOver(S, f) == IF S = {} THEN 0
                 ELSE LET x == CHOOSE y \in S : TRUE
                      IN f[x] + SumOver(S \ {x}, f)

\* ------------------------------------------------------------- the graph
\* nx.DiGraph: nodes in insertion order, node attributes, directed edges.
EmptyGraph == [nodes |-> <<>>, weight |-> <<>>, snapshot |-> <<>>, edges |-> {}]

NodeSet(g) == Range(g.nodes)

has_node(g, n) == n \in NodeSet(g)

IndexOf(g, n) == CHOOSE i \in DOMAIN g.nodes : g.nodes[i] = n

weight_of(g, n) == g.weight[IndexOf(g, n)]

\* G.add_node(n, weight=w, snapshot=s): a new node is appended, an existing
\* node keeps its place and has its attributes overwritten.
add_node(g, n, w, s) ==
    IF has_node(g, n)
    THEN [g EXCEPT !.weight[IndexOf(g, n)] = w, !.snapshot[IndexOf(g, n)] = s]
    ELSE [g EXCEPT !.nodes = Append(@, n), !.weight = Append(@, w),
                   !.snapshot = Append(@, s)]

successors(g, n) == {m \in NodeSet(g) : <<n, m>> \in g.edges}

in_degree(g, n) == Cardinality({e \in g.edges : e[2] = n})

out_degree(g, n) == Cardinality({e \in g.edges : e[1] = n})

RECURSIVE WeakReach(_, _)
WeakReach(g, S) ==
    LET T == S \cup {m \in NodeSet(g) :
                        \E n \in S : <<n, m>> \in g.edges \/ <<m, n>> \in g.edges}
    IN IF T = S THEN S ELSE WeakReach(g, T)

\* list(nx.weakly_connected_components(G))
weakly_connected_components(g) == {WeakReach(g, {n}) : n \in NodeSet(g)}

\* a connectivity test that accepts any number of components
is_weakly_connected_AnyCount(g) == Cardinality(weakly_connected_components(g)) >= 1

\* nx.is_weakly_connected(G), for a graph with at least one node
is_weakly_connected(g) == Cardinality(weakly_connected_components(g)) = 1

RECURSIVE ForwardReach(_, _)
ForwardReach(g, S) ==
    LET T == S \cup UNION {successors(g, n) : n \in S}
    IN IF T = S THEN S ELSE ForwardReach(g, T)

\* nx.descendants(g, n): reachable over one or more edges, n itself excluded
nx_descendants(g, n) == ForwardReach(g, successors(g, n)) \ {n}

\* G.subgraph(S).copy(): the induced subgraph on S as an independent graph.
\* The copy enumerates the nodes of the view, which filters the nodes of G in
\* their insertion order whenever S holds at least half of them (every
\* subgraph of two or more nodes within the bounds of this model).
RECURSIVE FilterIdx(_, _, _)
FilterIdx(g, S, i) ==
    IF i > Len(g.nodes) THEN <<>>
    ELSE IF g.nodes[i] \in S THEN <<i>> \o FilterIdx(g, S, i + 1)
    ELSE FilterIdx(g, S, i + 1)

\* a subgraph that keeps every edge leaving a vertex of S
subgraph_copy_OutEdges(g, S) ==
    LET idx == FilterIdx(g, S, 1)
    IN [nodes |-> [k \in DOMAIN idx |-> g.nodes[idx[k]]],
        weight |-> [k \in DOMAIN idx |-> g.weight[idx[k]]],
        snapshot |-> [k \in DOMAIN idx |-> g.snapshot[idx[k]]],
        edges |-> {e \in g.edges : e[1] \in S}]

subgraph_copy(g, S) ==
    LET idx == FilterIdx(g, S, 1)
    IN [nodes |-> [k \in DOMAIN idx |-> g.nodes[idx[k]]],
        weight |-> [k \in DOMAIN idx |-> g.weight[idx[k]]],
        snapshot |-> [k \in DOMAIN idx |-> g.snapshot[idx[k]]],
        edges |-> {e \in g.edges : e[1] \in S /\ e[2] \in S}]

\* ------------------------------------------------------------- validators
\* validate_snapshots: TRUE when it raises
NoMatchingSnapshots(vdf, edf) ==
    {vdf[i].snapshot : i \in DOMAIN vdf} \cap {r.snapshot : r \in edf} = {}

\* validate_graph_structure: edge_vertices - vertices, over the raw cells of
\* the whole tables
missing_vertices(vdf, edf) ==
    ({r.vertex_from : r \in edf} \cup {r.vertex_to : r \in edf})
        \ {vdf[i].vertex : i \in DOMAIN vdf}

\* validate_graph_structure: edge['vertex_from'] == edge['vertex_to'] on raw cells
SelfLoopDetected(edf) == \E r \in edf : r.vertex_from = r.vertex_to

NonNumericWeights(vdf) == \E i \in DOMAIN vdf : ~IsNumeric(vdf[i].weight)

NegativeWeights(vdf) == \E i \in DOMAIN vdf : ParseFloat(vdf[i].weight) < 0

NoError == [kind |-> "", names |-> {}, count |-> 0]

Err(kind) == [kind |-> kind, names |-> {}, count |-> 0]

\* validate_all: the error it raises, NoError when every validator passes
validate_all(vdf, edf) ==
    IF NoMatchingSnapshots(vdf, edf) THEN Err("no_matching_snapshots")
    ELSE IF missing_vertices(vdf, edf) # {}
         THEN [kind |-> "missing_vertices", names |-> missing_vertices(vdf, edf),
               count |-> 0]
    ELSE IF SelfLoopDetected(edf) THEN Err("self_loop")
    ELSE IF NonNumericWeights(vdf) THEN Err("non_numeric_weights")
    ELSE IF NegativeWeights(vdf) THEN Err("negative_weights")
    ELSE NoError

\* ------------------------------------------------------ graph construction
\* params is truthy when the dict has at least one key
ParamsTruthy(params) ==
    \/ params.snapshot # NoSnapshot
    \/ params.root_node # NoId
    \/ params.max_depth.kind # "absent"

\* lines 113-118: the snapshot the tables are filtered to, NoSnapshot for none
TargetSnapshot(req) ==
    IF ParamsTruthy(req.params) /\ req.params.snapshot # NoSnapshot
    THEN req.params.snapshot
    ELSE NoSnapshot

FilterVertices(vdf, target) ==
    IF target = NoSnapshot THEN vdf
    ELSE SelectSeq(vdf, LAMBDA r : r.snapshot = target)

FilterEdges(edf, target) ==
    IF target = NoSnapshot THEN edf
    ELSE {r \in edf : r.snapshot = target}

\* lines 122-129: add the nodes of rows i.. of the vertex table, in row order
RECURSIVE AddNodes(_, _, _)
AddNodes(g, vdf, i) ==
    IF i > Len(vdf) THEN g
    ELSE LET node_id == Strip(vdf[i].vertex)
         IN IF node_id # NoId
            THEN AddNodes(add_node(g, node_id, ParseFloat(vdf[i].weight),
                                   vdf[i].snapshot), vdf, i + 1)
            ELSE AddNodes(g, vdf, i + 1)

\* lines 136-145: the edge rows that are added to the graph
ValidEdgeRows(g, edf) ==
    {r \in edf : /\ Strip(r.vertex_from) # NoId /\ Strip(r.vertex_to) # NoId
                 /\ has_node(g, Strip(r.vertex_from))
                 /\ has_node(g, Strip(r.vertex_to))}

\* lines 146-152: the edge rows recorded in invalid_edges
InvalidEdgeRows(g, edf) ==
    {r \in edf : /\ Strip(r.vertex_from) # NoId /\ Strip(r.vertex_to) # NoId
                 /\ ~(has_node(g, Strip(r.vertex_from))
                      /\ has_node(g, Strip(r.vertex_to)))}

\* the vertices the entries of invalid_edges list as missing
MissingOf(g, rows) ==
    {n \in {Strip(r.vertex_from) : r \in rows} \cup {Strip(r.vertex_to) : r \in rows} :
        ~has_node(g, n)}

AddEdges(g, edf) ==
    [g EXCEPT !.edges = {<<Strip(r.vertex_from), Strip(r.vertex_to)>> :
                            r \in ValidEdgeRows(g, edf)}]

\* ------------------------------------------------------------------ state
VARIABLES
    request,          \* the GraphRequest: node_id and params
    vertex_df,        \* vertex table: sequence of rows [vertex, weight, snapshot]
    edge_df,          \* edge table: rows [vertex_from, vertex_to, snapshot]; a set,
                      \* as the code reads it row by row into sets (G's edges,
                      \* invalid_edges) and never by position
    pc,               \* position in process_graph_data
    error,            \* the exception that ended the call, NoError for none
    G,                \* the graph being built
    root_node,
    max_depth,        \* [inf, val]: float('inf') or an integer
    descendants,
    current_level,
    depth,
    subgraph,
    node_weight,
    subgraph_weight,
    subgraph_metrics,
    node_metrics,
    failed_calls,     \* the networkx calls that raised inside the node loop
    response,
    processor,        \* a GraphProcessor: snapshots, vertex_weights, processed_results
    gp_call,          \* the last call made on the GraphProcessor and its outcome
    loaded_tables,    \* the tables of the last process_dataframes that returned
    calls,            \* the calls of process_graph_data by thread: position,
                      \* request, outcome, and the DataManager's DSN, connection
                      \* ("none", "open", "closed", "dead") and whether it is pooled
    temp_dir,         \* whether the directory 'temp' exists
    tracker,          \* the global MetricsTracker: query_metrics, popular_subgraphs
    threads,          \* the request threads in track_query: position, key, value read
    saved_report      \* the usage report the saver thread wrote last

\* the variables of the MetricsTracker run
tracker_vars == <<tracker, threads, saved_report>>

\* the variables of the GraphProcessor run, of the concurrent run and of the
\* MetricsTracker run
other_vars == <<processor, gp_call, loaded_tables, calls, temp_dir,
                tracker, threads, saved_report>>

vars == <<request, vertex_df, edge_df, pc, error, G, root_node, max_depth,
          descendants, current_level, depth, subgraph, node_weight,
          subgraph_weight, subgraph_metrics, node_metrics, failed_calls, response,
          processor, gp_call, loaded_tables, calls, temp_dir,
          tracker, threads, saved_report>>

\* ----------------------------------------------------------------- inputs
a == <<"a">>
b == <<"b">>
c == <<"c">>
a_pad == <<"a", " ">>

\* vertex tables of at most n rows over S, one row for a vertex identifier
VertexTables(S, n) ==
    UNION {{s \in [1..k -> S] : \A i, j \in 1..k : i # j => s[i].vertex # s[j].vertex} :
              k \in 0..n}

RECURSIVE SubsetsUpTo(_, _)
SubsetsUpTo(S, n) ==
    IF n = 0 \/ S = {} THEN {{}}
    ELSE LET x == CHOOSE y \in S : TRUE
             rest == S \ {x}
         IN SubsetsUpTo(rest, n) \cup {T \cup {x} : T \in SubsetsUpTo(rest, n - 1)}

VertexRows(ids, weights, snaps) ==
    [vertex : ids, weight : weights, snapshot : snaps]

EdgeRows(pairs, snaps) ==
    {[vertex_from |-> pr[1], vertex_to |-> pr[2], snapshot |-> sn] :
        pr \in pairs, sn \in snaps}

Sources(kinds, vrows, erows) ==
    [kind : kinds,
     vertex_data : VertexTables(vrows, MaxVRows),
     edge_data : SubsetsUpTo(erows, MaxERows)]

Absent == [kind |-> "absent", val |-> 0]

IntDepths == {[kind |-> "int", val |-> k] : k \in (0 - 1)..MaxDepthParam}

\* max_depth given as a float, in tenths: -1.5, -0.5, 1.5, 2.0
FloatDepths == {[kind |-> "float", val |-> t] : t \in {0 - 15, 0 - 5, 15, 20}}

\* max_depth given as a string
TextDepths == {[kind |-> "str", val |-> t] : t \in {"x", "1.5", "-1", "2"}}

Requests(sources, node_ids, roots, snaps, depths) ==
    [source : sources, node_id : node_ids,
     params : [snapshot : snaps, root_node : roots, max_depth : depths]]

\* one snapshot, clean identifiers, every shape of graph on three vertices,
\* every way of naming the root and the depth
ShapeRequests ==
    Requests(Sources({"data"}, VertexRows({a, b, c}, {"2"}, {"s1"}),
                     EdgeRows({pr \in {a, b, c} \X {a, b, c} : pr[1] # pr[2]}, {"s1"})),
             {NoId, a}, {NoId, b}, {NoSnapshot, "s1"}, {Absent} \cup IntDepths)

\* identifiers that differ only in surrounding whitespace, read from a file
\* or supplied inline
PadRequests ==
    Requests(Sources({"data", "file"}, VertexRows({a, a_pad, b}, {"2"}, {"s1"}),
                     EdgeRows({a, a_pad, b} \X {a, a_pad, b}, {"s1"})),
             {NoId, a}, {NoId}, {NoSnapshot},
             {Absent, [kind |-> "int", val |-> 0]})

\* every kind of weight cell
WeightRequests ==
    Requests(Sources({"data", "file"},
                     VertexRows({a, b}, {"-1", "0", "2", "3", "x"}, {"s1"}),
                     EdgeRows({<<a, b>>, <<b, a>>}, {"s1"})),
             {NoId, a}, {NoId}, {NoSnapshot}, {Absent})

\* two snapshots, each vertex in one of them
SnapshotRequests ==
    Requests(Sources({"file"}, VertexRows({a, b, c}, {"2"}, {"s1", "s2"}),
                     EdgeRows({<<a, b>>, <<b, c>>}, {"s1", "s2"})),
             {NoId}, {NoId}, {NoSnapshot, "s1", "s2"}, {Absent})

\* a target snapshot s1 holding the edge a -> b, and rows of snapshot s2 that
\* the validators object to: a negative weight, a self-loop, a dangling edge
TargetRequests ==
    Requests([kind : {"file"},
              vertex_data :
                  {<<[vertex |-> a, weight |-> "2", snapshot |-> "s1"],
                     [vertex |-> b, weight |-> "3", snapshot |-> "s1"]>> \o other :
                      other \in {<<>>} \cup
                          {<<r>> : r \in VertexRows({c}, {"2", "-1"}, {"s2"})}},
              edge_data :
                  {EdgeRows({<<a, b>>}, {"s1"}) \cup other :
                      other \in SUBSET EdgeRows({<<b, c>>, <<c, c>>}, {"s2"})}],
             {NoId}, {NoId}, {"s1"}, {[kind |-> "int", val |-> 2]})

\* a max_depth that is not an int, over the graphs on a path of three vertices
DepthRequests ==
    Requests(Sources({"data"}, VertexRows({a, b, c}, {"2"}, {"s1"}),
                     EdgeRows({<<a, b>>, <<b, c>>}, {"s1"})),
             {NoId}, {NoId}, {NoSnapshot}, FloatDepths \cup TextDepths)

\* a density is kept as the fraction num / den
NoMetrics == [total_nodes |-> 0, total_edges |-> 0, root_node |-> NoId, depth |-> 0,
              is_tree |-> FALSE, density |-> [num |-> 0, den |-> 1]]

NoResponse == [present |-> FALSE, nodes |-> <<>>, edges |-> {}, root_node |-> NoId,
               node_weight |-> 0,
               subgraph_weight |-> 0, metrics |-> NoMetrics, node_metrics |-> <<>>]

\* one call of process_graph_data, before its first statement
InitCall ==
    /\ request \in ShapeRequests \cup PadRequests \cup WeightRequests
                       \cup SnapshotRequests \cup TargetRequests \cup DepthRequests
    /\ vertex_df = <<>>
    /\ edge_df = {}
    /\ pc = "load"
    /\ error = NoError
    /\ G = EmptyGraph
    /\ root_node = NoId
    /\ max_depth = [inf |-> FALSE, val |-> 0]
    /\ descendants = {}
    /\ current_level = {}
    /\ depth = 0
    /\ subgraph = EmptyGraph
    /\ node_weight = 0
    /\ subgraph_weight = 0
    /\ subgraph_metrics = NoMetrics
    /\ node_metrics = <<>>
    /\ failed_calls = {}
    /\ response = NoResponse

\* ---------------------------------------------------------------- actions
Fail(e) == pc' = "failed" /\ error' = e

\* lines 36-87: the inline rows as DataFrames: identifiers and snapshots are
\* trimmed, rows without an identifier are dropped, float(weight) is taken
InlineVertices(data) ==
    LET kept == SelectSeq(data, LAMBDA r : Strip(r.vertex) # NoId)
    IN [i \in DOMAIN kept |-> [kept[i] EXCEPT !.vertex = Strip(@)]]

InlineEdges(data) ==
    {[r EXCEPT !.vertex_from = Strip(@), !.vertex_to = Strip(@)] :
        r \in {q \in data : Strip(q.vertex_from) # NoId /\ Strip(q.vertex_to) # NoId}}

\* lines 28-94
LoadData ==
    /\ pc = "load"
    /\ IF request.source.kind = "data"
       THEN IF \E i \in DOMAIN request.source.vertex_data :
                    /\ Strip(request.source.vertex_data[i].vertex) # NoId
                    /\ ~IsNumeric(request.source.vertex_data[i].weight)
            THEN /\ Fail(Err("float_conversion"))
                 /\ UNCHANGED <<vertex_df, edge_df>>
            ELSE /\ vertex_df' = InlineVertices(request.source.vertex_data)
                 /\ edge_df' = InlineEdges(request.source.edge_data)
                 /\ pc' = "validate"
                 /\ UNCHANGED error
       ELSE /\ vertex_df' = request.source.vertex_data
            /\ edge_df' = request.source.edge_data
            /\ pc' = "validate"
            /\ UNCHANGED error
    /\ UNCHANGED <<request, G, root_node, max_depth, descendants, current_level,
                   depth, subgraph, node_weight, subgraph_weight, subgraph_metrics,
                   node_metrics, response>>
    /\ UNCHANGED <<failed_calls, other_vars>>

\* validate_vertex_data, validate_edge_data: pd.DataFrame(rows) of an empty
\* list of inline rows has no columns; a table read from a file has them
MissingColumns(source, vdf, edf) ==
    source.kind = "data" /\ (vdf = <<>> \/ edf = {})

\* lines 106-107
Validate ==
    /\ pc = "validate"
    /\ IF MissingColumns(request.source, vertex_df, edge_df)
       THEN Fail(Err("missing_columns"))
       ELSE IF validate_all(vertex_df, edge_df) = NoError
       THEN pc' = "build" /\ UNCHANGED error
       ELSE Fail(validate_all(vertex_df, edge_df))
    /\ UNCHANGED <<request, vertex_df, edge_df, G, root_node, max_depth, descendants,
                   current_level, depth, subgraph, node_weight, subgraph_weight,
                   subgraph_metrics, node_metrics, response>>
    /\ UNCHANGED <<failed_calls, other_vars>>

\* lines 109-159
BuildGraph ==
    /\ pc = "build"
    /\ LET target == TargetSnapshot(request)
           vdf == FilterVertices(vertex_df, target)
           edf == FilterEdges(edge_df, target)
           g == AddNodes(EmptyGraph, vdf, 1)
           invalid_edges == InvalidEdgeRows(g, edf)
       IN /\ vertex_df' = vdf
          /\ edge_df' = edf
          /\ G' = AddEdges(g, edf)
          /\ IF invalid_edges # {}
             THEN Fail([kind |-> "invalid_edges", names |-> MissingOf(g, invalid_edges),
                        count |-> 0])
             ELSE pc' = "check" /\ UNCHANGED error
    /\ UNCHANGED <<request, root_node, max_depth, descendants, current_level, depth,
                   subgraph, node_weight, subgraph_weight, subgraph_metrics,
                   node_metrics, response>>
    /\ UNCHANGED <<failed_calls, other_vars>>

\* lines 161-168
CheckStructure ==
    /\ pc = "check"
    /\ IF NodeSet(G) = {} THEN Fail(Err("empty_graph"))
       ELSE IF ~is_weakly_connected(G)
            THEN Fail([kind |-> "components", names |-> {},
                       count |-> Cardinality(weakly_connected_components(G))])
       ELSE pc' = "root" /\ UNCHANGED error
    /\ UNCHANGED <<request, vertex_df, edge_df, G, root_node, max_depth, descendants,
                   current_level, depth, subgraph, node_weight, subgraph_weight,
                   subgraph_metrics, node_metrics, response>>
    /\ UNCHANGED <<failed_calls, other_vars>>

\* max(seq, key=...): the first element with the greatest key
FirstMax(seq, key) ==
    seq[CHOOSE i \in DOMAIN seq :
            /\ \A j \in DOMAIN seq : key[seq[j]] <= key[seq[i]]
            /\ \A j \in 1..(i - 1) : key[seq[j]] < key[seq[i]]]

\* key=lambda n: G.out_degree(n)
OutDegrees(g) == [n \in NodeSet(g) |-> out_degree(g, n)]

\* a default root chosen by out-degree alone
DefaultRoot_IgnoreInDegree(g) == FirstMax(g.nodes, OutDegrees(g))

\* lines 177-184
DefaultRoot(g) ==
    LET root_candidates == SelectSeq(g.nodes, LAMBDA n : in_degree(g, n) = 0)
    IN IF root_candidates # <<>>
       THEN FirstMax(root_candidates, OutDegrees(g))
       ELSE FirstMax(g.nodes, OutDegrees(g))

\* lines 171-184
ResolvedRoot(req, g) ==
    IF ParamsTruthy(req.params) /\ req.params.root_node # NoId
    THEN Strip(req.params.root_node)
    ELSE IF req.node_id # NoId THEN Strip(req.node_id)
    ELSE DefaultRoot(g)

\* a root that is never looked up in the graph
RootError_Unchecked(g, root) == NoError

\* lines 189-190
RootError(g, root) == IF ~has_node(g, root) THEN Err("root_not_found") ELSE NoError

\* lines 170-190
ResolveRoot ==
    /\ pc = "root"
    /\ root_node' = ResolvedRoot(request, G)
    /\ IF RootError(G, root_node') # NoError THEN Fail(RootError(G, root_node'))
       ELSE pc' = "weights" /\ UNCHANGED error
    /\ UNCHANGED <<request, vertex_df, edge_df, G, max_depth, descendants,
                   current_level, depth, subgraph, node_weight, subgraph_weight,
                   subgraph_metrics, node_metrics, response>>
    /\ UNCHANGED <<failed_calls, other_vars>>

\* lines 194-203, for one stored weight
NormalizedWeight(w) == IF w <= 0 THEN 1 ELSE w

\* lines 192-203
NormalizeWeights ==
    /\ pc = "weights"
    /\ G' = [G EXCEPT !.weight = [i \in DOMAIN G.weight |-> NormalizedWeight(G.weight[i])]]
    /\ pc' = "depth"
    /\ UNCHANGED <<request, vertex_df, edge_df, error, root_node, max_depth,
                   descendants, current_level, depth, subgraph, node_weight,
                   subgraph_weight, subgraph_metrics, node_metrics, response>>
    /\ UNCHANGED <<failed_calls, other_vars>>

Infinity == [inf |-> TRUE, val |-> 0]

\* a conversion that lets a negative depth through
MaxDepthError_SignUnchecked(params) ==
    IF ~ParamsTruthy(params) THEN NoError
    ELSE IF params.max_depth.kind = "absent" THEN Err("overflow_error")
    ELSE IF ToInt(params.max_depth).raises THEN Err("invalid_max_depth")
    ELSE NoError

\* line 209: the error the conversion raises, NoError when it yields a depth.
\* With a non-empty params that has no max_depth, int(float('inf')) raises
\* OverflowError, which the except clause of line 212 does not catch.
\* A value int() cannot convert raises ValueError, reported by line 213 as
\* an invalid max_depth, like the negative depth of lines 210-211.
MaxDepthError(params) ==
    IF ~ParamsTruthy(params) THEN NoError
    ELSE IF params.max_depth.kind = "absent" THEN Err("overflow_error")
    ELSE IF ToInt(params.max_depth).raises THEN Err("invalid_max_depth")
    ELSE IF ToInt(params.max_depth).val < 0 THEN Err("invalid_max_depth")
    ELSE NoError

\* line 209: the depth the conversion yields
MaxDepthValue(params) ==
    IF ~ParamsTruthy(params) THEN Infinity
    ELSE [inf |-> FALSE, val |-> ToInt(params.max_depth).val]

\* lines 205-213
ParseMaxDepth ==
    /\ pc = "depth"
    /\ descendants' = {root_node}
    /\ current_level' = {root_node}
    /\ IF MaxDepthError(request.params) # NoError
       THEN Fail(MaxDepthError(request.params)) /\ UNCHANGED <<max_depth, depth>>
       ELSE /\ max_depth' = MaxDepthValue(request.params)
            /\ depth' = 0
            /\ pc' = "bfs"
            /\ UNCHANGED error
    /\ UNCHANGED <<request, vertex_df, edge_df, G, root_node, subgraph, node_weight,
                   subgraph_weight, subgraph_metrics, node_metrics, response>>
    /\ UNCHANGED <<failed_calls, other_vars>>

\* a loop that runs one level past max_depth
LoopGuard_Inclusive(level, md, d) == level # {} /\ (md.inf \/ d <= md.val)

\* line 217: the loop condition
LoopGuard(level, md, d) == level # {} /\ (md.inf \/ d < md.val)

\* a frontier that follows the edges backwards
NextLevel_Predecessors(g, level, visited) ==
    UNION {{m \in NodeSet(g) : <<m, n>> \in g.edges} \ visited : n \in level}

\* a frontier that keeps the children already visited
NextLevel_Revisit(g, level, visited) == UNION {successors(g, n) : n \in level}

\* lines 218-221: the next frontier
NextLevel(g, level, visited) == UNION {successors(g, n) \ visited : n \in level}

\* lines 217-224: one iteration of the loop
BfsLevel ==
    /\ pc = "bfs"
    /\ LoopGuard(current_level, max_depth, depth)
    /\ LET next_level == NextLevel(G, current_level, descendants)
       IN /\ descendants' = descendants \cup next_level
          /\ current_level' = next_level
    /\ depth' = depth + 1
    /\ UNCHANGED <<request, vertex_df, edge_df, pc, error, G, root_node, max_depth,
                   subgraph, node_weight, subgraph_weight, subgraph_metrics,
                   node_metrics, response>>
    /\ UNCHANGED <<failed_calls, other_vars>>

\* lines 226-230: the loop has ended
ExtractSubgraph ==
    /\ pc = "bfs"
    /\ ~LoopGuard(current_level, max_depth, depth)
    /\ subgraph' = subgraph_copy(G, descendants)
    /\ IF NodeSet(subgraph') = {} THEN Fail(Err("empty_subgraph"))
       ELSE pc' = "root_weights" /\ UNCHANGED error
    /\ UNCHANGED <<request, vertex_df, edge_df, G, root_node, max_depth, descendants,
                   current_level, depth, node_weight, subgraph_weight,
                   subgraph_metrics, node_metrics, response>>
    /\ UNCHANGED <<failed_calls, other_vars>>

\* lines 237-239
TotalWeight(g, sub) ==
    SumOver(NodeSet(sub), [n \in NodeSet(sub) |-> weight_of(g, n)])

\* nx.density of a directed graph: m / (n (n - 1)), and 0 when there is no
\* edge or at most one node
nx_density(g) ==
    LET n == Cardinality(NodeSet(g))
        m == Cardinality(g.edges)
    IN IF m = 0 \/ n <= 1 THEN [num |-> 0, den |-> 1]
       ELSE [num |-> m, den |-> n * (n - 1)]

\* line 249, nx.is_tree(subgraph.to_undirected()): to_undirected merges the two
\* directions of an edge, and a tree is connected with one edge less than nodes
nx_is_tree(g) ==
    LET undirected == {{e[1], e[2]} : e \in g.edges}
    IN /\ Cardinality(undirected) = Cardinality(NodeSet(g)) - 1
       /\ is_weakly_connected(g)

\* lines 234-253; the keys of subgraph_metrics are those of the dict of lines
\* 244-253, with additional_metrics.density kept as density
ComputeWeights ==
    /\ pc = "root_weights"
    /\ node_weight' = weight_of(G, root_node)
    /\ subgraph_weight' = TotalWeight(G, subgraph)
    /\ subgraph_metrics' = [total_nodes |-> Cardinality(NodeSet(subgraph)),
                            total_edges |-> Cardinality(subgraph.edges),
                            root_node |-> root_node,
                            depth |-> depth,
                            is_tree |-> nx_is_tree(subgraph),
                            density |-> nx_density(subgraph)]
    /\ pc' = "node_metrics"
    /\ UNCHANGED <<request, vertex_df, edge_df, error, G, root_node, max_depth,
                   descendants, current_level, depth, subgraph, node_metrics, response>>
    /\ UNCHANGED <<failed_calls, other_vars>>

\* a weight summed over the descendants in the graph G the subgraph was cut from
LocalSubgraphWeight_FullGraph(sub, n) ==
    LET full == IF has_node(G, n) THEN G ELSE sub
        node_descendants == nx_descendants(full, n) \cup {n}
    IN SumOver(node_descendants, [m \in node_descendants |-> weight_of(full, m)])

\* lines 261-262: the weight of a node and of its descendants in the subgraph
LocalSubgraphWeight(sub, n) ==
    LET node_descendants == nx_descendants(sub, n) \cup {n}
    IN SumOver(node_descendants, [m \in node_descendants |-> weight_of(sub, m)])

\* line 265: subgraph.degree(node)
Degree(sub, n) == in_degree(sub, n) + out_degree(sub, n)

\* The value of a centrality is not computed here: a metric is the name of the
\* networkx call that produced it, "0.0" for the literal of an except clause.
\* lines 267-275, 287-290: a guarded call
Guarded(call, failed) == IF call \in failed THEN "0.0" ELSE call

\* the combinations of calls that raise on one subgraph; the power iteration
\* is only called after the closed form has raised
FailedCalls ==
    {{}, {"eigenvector_centrality_numpy"},
     {"eigenvector_centrality_numpy", "eigenvector_centrality"},
     {"betweenness_centrality", "clustering"},
     {"betweenness_centrality", "closeness_centrality", "clustering",
      "eigenvector_centrality_numpy", "eigenvector_centrality"}}

\* the iteration cap passed to nx.eigenvector_centrality
max_iter == 1000

\* a chain that starts with the power iteration
Eigenvector_PowerFirst(failed) ==
    IF "eigenvector_centrality" \notin failed
    THEN [by |-> "eigenvector_centrality", max_iter |-> max_iter]
    ELSE IF "eigenvector_centrality_numpy" \notin failed
    THEN [by |-> "eigenvector_centrality_numpy", max_iter |-> 0]
    ELSE [by |-> "degree_centrality", max_iter |-> 0]

\* lines 277-285: the call that yields the eigenvector value.
\* nx.degree_centrality divides each degree by n - 1, or returns 1 for every
\* node when n <= 1: it does not raise.
Eigenvector(failed) ==
    IF "eigenvector_centrality_numpy" \notin failed
    THEN [by |-> "eigenvector_centrality_numpy", max_iter |-> 0]
    ELSE IF "eigenvector_centrality" \notin failed
    THEN [by |-> "eigenvector_centrality", max_iter |-> max_iter]
    ELSE [by |-> "degree_centrality", max_iter |-> 0]

\* lines 292-301: the entry of one node
NodeEntry(sub, n, failed) ==
    [Node |-> n, Weight |-> weight_of(sub, n),
     Subgraph_Weight |-> LocalSubgraphWeight(sub, n), Degree |-> Degree(sub, n),
     Betweenness |-> Guarded("betweenness_centrality", failed),
     Closeness |-> Guarded("closeness_centrality", failed),
     Eigenvector |-> Eigenvector(failed),
     ClusteringCoeff |-> Guarded("clustering", failed)]

\* a loop that skips a node when one of its calls has raised
NodeEntries_SkipOnFailure(sub, failed) ==
    IF failed # {} THEN <<>>
    ELSE [i \in DOMAIN sub.nodes |-> NodeEntry(sub, sub.nodes[i], failed)]

\* lines 257-304: the entries the loop appends; every statement outside the
\* inner try blocks succeeds on a node of the subgraph, so the except clause
\* of line 302 skips no node
NodeEntries(sub, failed) ==
    [i \in DOMAIN sub.nodes |-> NodeEntry(sub, sub.nodes[i], failed)]

\* lines 257-262: the loop assigns to the variable subgraph_weight of line 237
\* on every iteration, so after the loop it holds the value of the last node
WeightAfterLoop(sub, before) ==
    IF sub.nodes = <<>> THEN before
    ELSE LocalSubgraphWeight(sub, sub.nodes[Len(sub.nodes)])

\* lines 255-307
NodeMetrics ==
    /\ pc = "node_metrics"
    /\ \E failed \in FailedCalls :
          /\ failed_calls' = failed
          /\ node_metrics' = NodeEntries(subgraph, failed)
    /\ subgraph_weight' = WeightAfterLoop(subgraph, subgraph_weight)
    /\ pc' = "format"
    /\ UNCHANGED <<request, vertex_df, edge_df, error, G, root_node, max_depth,
                   descendants, current_level, depth, subgraph, node_weight,
                   subgraph_metrics, response>>
    /\ UNCHANGED other_vars

\* formatters.py lines 34-38: the root the formatter takes for the graph it is
\* handed: the first node without incoming edges, else the first node of
\* greatest out-degree
FormatterRoot(g) ==
    LET root_candidates == SelectSeq(g.nodes, LAMBDA n : in_degree(g, n) = 0)
    IN IF root_candidates # <<>>
       THEN root_candidates[1]
       ELSE FirstMax(g.nodes, OutDegrees(g))

\* formatters.py lines 44-60: the entry of one node in the d3/json response
FormatNode(g, n) ==
    LET node_descendants == nx_descendants(g, n) \cup {n}
    IN [id |-> n, weight |-> weight_of(g, n), is_root |-> n = FormatterRoot(g),
        subgraph_weight |->
            SumOver(node_descendants, [m \in node_descendants |-> weight_of(g, m)])]

\* lines 309-320, with the request's default format "json"
FormatResponse ==
    /\ pc = "format"
    /\ response' = [present |-> TRUE,
                    nodes |-> [i \in DOMAIN subgraph.nodes |->
                                  FormatNode(subgraph, subgraph.nodes[i])],
                    edges |-> subgraph.edges,
                    root_node |-> FormatterRoot(subgraph),
                    node_weight |-> node_weight,
                    subgraph_weight |-> subgraph_weight,
                    metrics |-> subgraph_metrics, node_metrics |-> node_metrics]
    /\ pc' = "done"
    /\ UNCHANGED <<request, vertex_df, edge_df, error, G, root_node, max_depth,
                   descendants, current_level, depth, subgraph, node_weight,
                   subgraph_weight, subgraph_metrics, node_metrics>>
    /\ UNCHANGED <<failed_calls, other_vars>>

\* --------------------------------------------------------- GraphProcessor
\* whether pd.to_datetime can read the text of a snapshot cell
IsDateText(t) == t \in {"2024-01-01", "2024-01-01 00:00", "2024-01-02"}

\* pd.to_datetime: the Timestamp, as the number of the day; two spellings of
\* one day give the same Timestamp
to_datetime(t) == CASE t = "2024-01-01" -> 1
                    [] t = "2024-01-01 00:00" -> 1
                    [] t = "2024-01-02" -> 2

\* a dict is a function on its keys
EmptyDict == <<>>

\* d.update(e)
Update(d, e) == [k \in DOMAIN d \cup DOMAIN e |-> IF k \in DOMAIN e THEN e[k] ELSE d[k]]

\* GraphProcessor.__init__
NewProcessor == [snapshots |-> EmptyDict, vertex_weights |-> EmptyDict,
                 processed_results |-> EmptyDict]

NoResult == [node_weight |-> 0, subgraph_weight |-> 0, nodes |-> {}, edges |-> {},
             node_weights |-> EmptyDict]

\* df.groupby('snapshot'): the rows of one Timestamp, in table order
RowsOn(df, s) == SelectSeq(df, LAMBDA r : to_datetime(r.snapshot) = s)

Timestamps(df) == {to_datetime(df[i].snapshot) : i \in DOMAIN df}

\* lines 51-55: per Timestamp, vertex -> weight; a later row of a vertex wins
VertexWeights(vdf) ==
    [s \in Timestamps(vdf) |->
        LET rows == RowsOn(vdf, s)
        IN [n \in {rows[i].vertex : i \in DOMAIN rows} |->
               rows[CHOOSE i \in DOMAIN rows :
                        /\ rows[i].vertex = n
                        /\ \A j \in (i + 1)..Len(rows) : rows[j].vertex # n].weight]]

\* G.add_node / G.add_edge: the nodes not yet in the graph are appended
RECURSIVE AddAll(_, _)
AddAll(nodes, seq) ==
    IF seq = <<>> THEN nodes
    ELSE AddAll(IF Head(seq) \in Range(nodes) THEN nodes ELSE Append(nodes, Head(seq)),
                Tail(seq))

\* lines 62-69: the graph of one Timestamp: the vertices of the vertex table,
\* then every edge row, whose endpoints become nodes when they are not yet
SnapshotGraph(vdf, edf, s) ==
    LET vrows == RowsOn(vdf, s)
        erows == RowsOn(edf, s)
        ends == [i \in 1..(2 * Len(erows)) |->
                    IF i % 2 = 1 THEN erows[(i + 1) \div 2].vertex_from
                    ELSE erows[i \div 2].vertex_to]
    IN [nodes |-> AddAll(AddAll(<<>>, [i \in DOMAIN vrows |-> vrows[i].vertex]), ends),
        edges |-> {<<erows[i].vertex_from, erows[i].vertex_to>> : i \in DOMAIN erows}]

\* a result over the descendants alone, the node itself left out
NodeResult_DescendantsOnly(proc, s, n) ==
    LET graph == proc.snapshots[s]
        Weight(m) == IF m \in DOMAIN proc.vertex_weights[s]
                     THEN proc.vertex_weights[s][m] ELSE 0
        nodes == nx_descendants(graph, n)
    IN [node_weight |-> Weight(n),
        subgraph_weight |-> SumOver(nodes, [m \in nodes |-> Weight(m)]),
        nodes |-> nodes,
        edges |-> {e \in graph.edges : e[1] \in nodes /\ e[2] \in nodes},
        node_weights |-> [m \in nodes |-> Weight(m)]]

\* lines 116-141: the SubgraphResult of one node
NodeResult(proc, s, n) ==
    LET graph == proc.snapshots[s]
        Weight(m) == IF m \in DOMAIN proc.vertex_weights[s]
                     THEN proc.vertex_weights[s][m] ELSE 0
        nodes == nx_descendants(graph, n) \cup {n}
    IN [node_weight |-> Weight(n),
        subgraph_weight |-> SumOver(nodes, [m \in nodes |-> Weight(m)]),
        nodes |-> nodes,
        edges |-> {e \in graph.edges : e[1] \in nodes /\ e[2] \in nodes},
        node_weights |-> [m \in nodes |-> Weight(m)]]

\* lines 116-144: _process_node, the processor after the call
process_node(proc, s, n) ==
    IF n \in DOMAIN proc.processed_results[s] THEN proc
    ELSE [proc EXCEPT !.processed_results[s] =
                          Update(@, [k \in {n} |-> NodeResult(proc, s, n)])]

\* lines 108-114: _process_all_graphs
process_all_graphs(proc) ==
    [proc EXCEPT !.processed_results =
        Update(@, [s \in DOMAIN proc.snapshots |->
                      [n \in NodeSet(proc.snapshots[s]) |-> NodeResult(proc, s, n)]])]

\* a reload that keeps what the dicts held
Cleared_Kept(dict) == dict

\* lines 46-48: each dict is replaced by an empty one
Cleared(dict) == EmptyDict

\* lines 46-72: the processor after process_dataframes has returned
LoadTables(proc, vdf, edf) ==
    LET vertex_weights == Update(Cleared(proc.vertex_weights), VertexWeights(vdf))
        snapshots ==
            Update(Cleared(proc.snapshots),
                   [s \in Timestamps(edf) \cap DOMAIN vertex_weights |->
                       SnapshotGraph(vdf, edf, s)])
    IN process_all_graphs([snapshots |-> snapshots,
                           vertex_weights |-> vertex_weights,
                           processed_results |-> Cleared(proc.processed_results)])

\* the tables handed to process_dataframes: a handful of vertex rows and at
\* most one edge row, or tables without the required columns
GPVertexRows ==
    [vertex : {a}, weight : {2, 3}, snapshot : {"2024-01-01"}]
        \cup [vertex : {a, b}, weight : {2}, snapshot : {"2024-01-02"}]
        \cup [vertex : {b}, weight : {3}, snapshot : {"2024-01-01"}]

GPEdgeRows ==
    [vertex_from : {a}, vertex_to : {b}, snapshot : {"2024-01-01 00:00", "soon"}]
        \cup [vertex_from : {b}, vertex_to : {a, c}, snapshot : {"2024-01-02"}]

NoTables == [columns |-> FALSE, vertex_df |-> <<>>, edge_df |-> <<>>]

GPTables ==
    {NoTables} \cup
    [columns : {TRUE}, vertex_df : VertexTables(GPVertexRows, 2),
     edge_df : {<<>>} \cup {<<r>> : r \in GPEdgeRows}]

GPCall(op, node_id, snapshot, err, result) ==
    [op |-> op, node_id |-> node_id, snapshot |-> snapshot, error |-> err,
     result |-> result]

NoCall == GPCall("none", NoId, "", "", NoResult)

\* process_dataframes, lines 25-72
ProcessDataframes(tables) ==
    /\ gp_call # NoCall
    /\ IF ~tables.columns
       THEN /\ gp_call' = GPCall("process_dataframes", NoId, "", "missing_columns", NoResult)
            /\ UNCHANGED <<processor, loaded_tables>>
       ELSE IF \E r \in Range(tables.vertex_df) \cup Range(tables.edge_df) :
                   ~IsDateText(r.snapshot)
       THEN /\ gp_call' = GPCall("process_dataframes", NoId, "", "bad_date", NoResult)
            /\ UNCHANGED <<processor, loaded_tables>>
       ELSE /\ processor' = LoadTables(processor, tables.vertex_df, tables.edge_df)
            /\ loaded_tables' = tables
            /\ gp_call' = GPCall("process_dataframes", NoId, "", "", NoResult)
    /\ UNCHANGED <<request, vertex_df, edge_df, pc, error, G, root_node, max_depth,
                   descendants, current_level, depth, subgraph, node_weight,
                   subgraph_weight, subgraph_metrics, node_metrics, failed_calls,
                   response, calls, temp_dir>>
    /\ UNCHANGED tracker_vars

\* lines 163-170: the error get_subgraph_weight raises, "" for none
LookupError(proc, node_id, snapshot) ==
    IF ~IsDateText(snapshot) THEN "bad_date"
    ELSE IF to_datetime(snapshot) \notin DOMAIN proc.snapshots THEN "no_snapshot"
    ELSE IF ~has_node(proc.snapshots[to_datetime(snapshot)], node_id) THEN "node_not_found"
    ELSE ""

\* get_subgraph_weight(node_id, snapshot, include_structure=True), lines 146-178
GetSubgraphWeight(node_id, snapshot) ==
    /\ gp_call # NoCall
    /\ IF LookupError(processor, node_id, snapshot) # ""
       THEN /\ gp_call' = GPCall("get_subgraph_weight", node_id, snapshot,
                                 LookupError(processor, node_id, snapshot), NoResult)
            /\ UNCHANGED processor
       ELSE /\ processor' = process_node(processor, to_datetime(snapshot), node_id)
            /\ gp_call' = GPCall("get_subgraph_weight", node_id, snapshot, "",
                                 processor'.processed_results[to_datetime(snapshot)][node_id])
    /\ UNCHANGED <<request, vertex_df, edge_df, pc, error, G, root_node, max_depth,
                   descendants, current_level, depth, subgraph, node_weight,
                   subgraph_weight, subgraph_metrics, node_metrics, failed_calls,
                   response, loaded_tables, calls, temp_dir>>
    /\ UNCHANGED tracker_vars

\* ------------------------------------------------------ concurrent calls
\* lines 217-224 as a whole: the visited set when the loop ends
RECURSIVE Bfs(_, _, _, _, _)
Bfs(g, level, visited, md, d) ==
    IF LoopGuard(level, md, d)
    THEN Bfs(g, NextLevel(g, level, visited),
             visited \cup NextLevel(g, level, visited), md, d + 1)
    ELSE visited

Raised(kind) == [error |-> kind, nodes |-> {}, node_weight |-> 0, subgraph_weight |-> 0]

NoOutcome == Raised("")

\* graph_service.py lines 27-320 as a whole: what the body of one call raises
\* or returns for a request; it reads and writes local variables only
RunBody(req) ==
    LET inline == req.source.kind = "data"
        vdf0 == IF inline THEN InlineVertices(req.source.vertex_data)
                ELSE req.source.vertex_data
        edf0 == IF inline THEN InlineEdges(req.source.edge_data)
                ELSE req.source.edge_data
        vdf == FilterVertices(vdf0, TargetSnapshot(req))
        edf == FilterEdges(edf0, TargetSnapshot(req))
        g0 == AddNodes(EmptyGraph, vdf, 1)
        g1 == AddEdges(g0, edf)
        root == ResolvedRoot(req, g1)
        g == [g1 EXCEPT !.weight = [i \in DOMAIN g1.weight |-> NormalizedWeight(g1.weight[i])]]
        sub == subgraph_copy(g, Bfs(g, {root}, {root}, MaxDepthValue(req.params), 0))
    IN IF inline /\ \E i \in DOMAIN req.source.vertex_data :
                       /\ Strip(req.source.vertex_data[i].vertex) # NoId
                       /\ ~IsNumeric(req.source.vertex_data[i].weight)
       THEN Raised("float_conversion")
       ELSE IF MissingColumns(req.source, vdf0, edf0) THEN Raised("missing_columns")
       ELSE IF validate_all(vdf0, edf0) # NoError THEN Raised(validate_all(vdf0, edf0).kind)
       ELSE IF InvalidEdgeRows(g0, edf) # {} THEN Raised("invalid_edges")
       ELSE IF NodeSet(g1) = {} THEN Raised("empty_graph")
       ELSE IF ~is_weakly_connected(g1) THEN Raised("components")
       ELSE IF RootError(g1, root) # NoError THEN Raised(RootError(g1, root).kind)
       ELSE IF MaxDepthError(req.params) # NoError
            THEN Raised(MaxDepthError(req.params).kind)
       ELSE IF NodeSet(sub) = {} THEN Raised("empty_subgraph")
       ELSE [error |-> "", nodes |-> NodeSet(sub), node_weight |-> weight_of(g, root),
             subgraph_weight |-> WeightAfterLoop(sub, TotalWeight(g, sub))]

\* the requests of the concurrent calls: two vertices, with or without the
\* edge between them, the root left out or named
ConcurrentRequests ==
    Requests([kind : {"data"},
              vertex_data : {<<[vertex |-> a, weight |-> "2", snapshot |-> "s1"],
                               [vertex |-> b, weight |-> "3", snapshot |-> "s1"]>>},
              edge_data : {{}, {[vertex_from |-> a, vertex_to |-> b, snapshot |-> "s1"]}}],
             {NoId, b}, {NoId}, {NoSnapshot}, {Absent})

\* data_manager.py line 61, Path("temp").mkdir(exist_ok=True): os.mkdir
\* creates the directory, or fails because the name exists
DataManagerMkdir(i) ==
    /\ i \in DOMAIN calls
    /\ calls[i].pc = "mkdir"
    /\ IF temp_dir
       THEN calls' = [calls EXCEPT ![i].pc = "is_dir"] /\ UNCHANGED temp_dir
       ELSE calls' = [calls EXCEPT ![i].pc = "try"] /\ temp_dir' = TRUE
    /\ UNCHANGED <<request, vertex_df, edge_df, pc, error, G, root_node, max_depth,
                   descendants, current_level, depth, subgraph, node_weight,
                   subgraph_weight, subgraph_metrics, node_metrics, failed_calls,
                   response, processor, gp_call, loaded_tables>>
    /\ UNCHANGED tracker_vars

\* data_manager.py line 61, after os.mkdir has failed: mkdir(exist_ok=True)
\* returns when the name is a directory and re-raises FileExistsError when it
\* is not; line 25 of graph_service.py is outside the try block
DataManagerIsDir(i) ==
    /\ i \in DOMAIN calls
    /\ calls[i].pc = "is_dir"
    /\ IF temp_dir
       THEN calls' = [calls EXCEPT ![i].pc = "try"]
       ELSE calls' = [calls EXCEPT ![i].pc = "raised",
                                   ![i].outcome = Raised("FileExistsError")]
    /\ UNCHANGED <<request, vertex_df, edge_df, pc, error, G, root_node, max_depth,
                   descendants, current_level, depth, subgraph, node_weight,
                   subgraph_weight, subgraph_metrics, node_metrics, failed_calls,
                   response, processor, gp_call, loaded_tables, temp_dir>>
    /\ UNCHANGED tracker_vars

\* the requests with an SQLSource: vertex_data and edge_data are the tables
\* the two queries return when they succeed
SqlRequests ==
    Requests([kind : {"sql"},
              vertex_data : {<<[vertex |-> a, weight |-> "2", snapshot |-> "s1"],
                               [vertex |-> b, weight |-> "3", snapshot |-> "s1"]>>},
              edge_data : {{}, {[vertex_from |-> a, vertex_to |-> b, snapshot |-> "s1"]}}],
             {NoId}, {NoId}, {NoSnapshot}, {Absent})

\* what a call of execute_query may do once it has a connection: return the
\* rows, raise a pyodbc.Error that says "Connection is closed", or raise
\* another pyodbc.Error
QueryResults == {"rows", "connection_closed", "pyodbc_error"}

\* graph_service.py lines 30-33 and data_manager.py lines 37-53, 67-77: one
\* execute_query of an SQL request. get_connection raises without a DSN; it
\* connects and pools the connection when the pool has none, and the connect
\* may fail; it drops a connection from the pool only on "Connection is
\* closed". Any exception leaves the try block for the finally clause.
ExecuteQuery(i) ==
    /\ i \in DOMAIN calls
    /\ calls[i].request.source.kind = "sql"
    /\ calls[i].pc \in {"try", "edge_query"}
    /\ \/ /\ calls[i].dsn = ""
          /\ calls' = [calls EXCEPT ![i].pc = "finally",
                                    ![i].outcome = Raised("no_dsn")]
       \/ /\ calls[i].dsn # ""
          /\ ~calls[i].pooled
          /\ calls' = [calls EXCEPT ![i].pc = "finally",
                                    ![i].outcome = Raised("connect_error")]
       \/ /\ calls[i].dsn # ""
          /\ \E result \in QueryResults :
                calls' =
                    [calls EXCEPT
                       ![i].pc = IF result # "rows" THEN "finally"
                                 ELSE IF calls[i].pc = "try" THEN "edge_query"
                                 ELSE "body",
                       ![i].outcome = IF result = "rows" THEN @ ELSE Raised(result),
                       ![i].pooled = result # "connection_closed",
                       ![i].connection =
                           IF result = "connection_closed" THEN "dead" ELSE "open"]
    /\ UNCHANGED <<request, vertex_df, edge_df, pc, error, G, root_node, max_depth,
                   descendants, current_level, depth, subgraph, node_weight,
                   subgraph_weight, subgraph_metrics, node_metrics, failed_calls,
                   response, processor, gp_call, loaded_tables, temp_dir>>
    /\ UNCHANGED tracker_vars

\* graph_service.py lines 27-320, for an SQL request lines 106-320
CallBody(i) ==
    /\ i \in DOMAIN calls
    /\ \/ calls[i].pc = "try" /\ calls[i].request.source.kind # "sql"
       \/ calls[i].pc = "body"
    /\ calls' = [calls EXCEPT ![i].pc = "finally",
                              ![i].outcome = RunBody(calls[i].request)]
    /\ UNCHANGED <<request, vertex_df, edge_df, pc, error, G, root_node, max_depth,
                   descendants, current_level, depth, subgraph, node_weight,
                   subgraph_weight, subgraph_metrics, node_metrics, failed_calls,
                   response, processor, gp_call, loaded_tables, temp_dir>>
    /\ UNCHANGED tracker_vars

\* a cleanup that leaves the pool as it is
cleanup_PoolKept(call) == call

\* data_manager.py lines 260-265: every pooled connection is closed, an error
\* of close() is swallowed, and the pool is cleared
cleanup(call) ==
    [call EXCEPT !.connection = IF call.pooled /\ @ = "open" THEN "closed" ELSE @,
                 !.pooled = FALSE]

\* graph_service.py lines 322-323, data_manager.py lines 257-271: rmdir removes
\* the directory, which holds no file; when it is gone the error is swallowed
Cleanup(i) ==
    /\ i \in DOMAIN calls
    /\ calls[i].pc = "finally"
    /\ temp_dir' = FALSE
    /\ calls' = [calls EXCEPT ![i] = [cleanup(@) EXCEPT !.pc = "returned"]]
    /\ UNCHANGED <<request, vertex_df, edge_df, pc, error, G, root_node, max_depth,
                   descendants, current_level, depth, subgraph, node_weight,
                   subgraph_weight, subgraph_metrics, node_metrics, failed_calls,
                   response, processor, gp_call, loaded_tables>>
    /\ UNCHANGED tracker_vars

\* ------------------------------------------------------- MetricsTracker
\* metrics.py lines 40-41: the tracker after __init__; query_metrics holds the
\* key of each QueryMetrics appended
NewTracker == [query_metrics |-> <<>>, popular_subgraphs |-> EmptyDict]

\* the keys f"{node_id}:{graph_size}" of line 74
QueryKeys == {"a:2", "b:3"}

NoReport == [total_queries |-> 0, popular_subgraphs |-> EmptyDict]

\* lines 91-98, get_usage_report: of its four keys the two that track_query
\* feeds
get_usage_report(tr) ==
    [total_queries |-> Len(tr.query_metrics),
     popular_subgraphs |-> tr.popular_subgraphs]

\* Counter.__getitem__: the count of the key, 0 from __missing__
Count(counter, key) == IF key \in DOMAIN counter THEN counter[key] ELSE 0

\* the statements of the tracker run leave the other runs' variables alone
TrackerStep ==
    UNCHANGED <<request, vertex_df, edge_df, pc, error, G, root_node, max_depth,
                descendants, current_level, depth, subgraph, node_weight,
                subgraph_weight, subgraph_metrics, node_metrics, failed_calls,
                response, processor, gp_call, loaded_tables, calls, temp_dir>>

\* line 73: list.append, one step of the interpreter
TrackQueryAppend(t) ==
    /\ t \in DOMAIN threads
    /\ threads[t].pc = "append"
    /\ tracker' = [tracker EXCEPT !.query_metrics = Append(@, threads[t].key)]
    /\ threads' = [threads EXCEPT ![t].pc = "read"]
    /\ UNCHANGED saved_report
    /\ TrackerStep

\* line 74, self.popular_subgraphs[key] += 1, first half: the count is read
\* into the thread; no lock is held, and another thread may run before the
\* store
TrackQueryRead(t) ==
    /\ t \in DOMAIN threads
    /\ threads[t].pc = "read"
    /\ threads' = [threads EXCEPT ![t].pc = "store",
                                  ![t].count = Count(tracker.popular_subgraphs,
                                                     threads[t].key)]
    /\ UNCHANGED <<tracker, saved_report>>
    /\ TrackerStep

\* line 74, second half: the count read plus one is stored under the key
TrackQueryStore(t) ==
    /\ t \in DOMAIN threads
    /\ threads[t].pc = "store"
    /\ tracker' = [tracker EXCEPT !.popular_subgraphs =
                       Update(@, [k \in {threads[t].key} |-> threads[t].count + 1])]
    /\ threads' = [threads EXCEPT ![t].pc = "returned"]
    /\ UNCHANGED saved_report
    /\ TrackerStep

\* lines 54-62 and 100-137: the saver thread wakes and save_metrics writes the
\* report; with no query tracked it returns at line 108
PeriodicSave ==
    /\ threads # <<>>
    /\ tracker.query_metrics # <<>>
    /\ saved_report' = get_usage_report(tracker)
    /\ UNCHANGED <<tracker, threads>>
    /\ TrackerStep

\* ------------------------------------------------------------ the runs
NoRequest ==
    [source |-> [kind |-> "none", vertex_data |-> <<>>, edge_data |-> {}],
     node_id |-> NoId,
     params |-> [snapshot |-> NoSnapshot, root_node |-> NoId, max_depth |-> Absent]]

\* no call of process_graph_data is made
NoCallOfService ==
    /\ request = NoRequest
    /\ vertex_df = <<>>
    /\ edge_df = {}
    /\ pc = "idle"
    /\ error = NoError
    /\ G = EmptyGraph
    /\ root_node = NoId
    /\ max_depth = [inf |-> FALSE, val |-> 0]
    /\ descendants = {}
    /\ current_level = {}
    /\ depth = 0
    /\ subgraph = EmptyGraph
    /\ node_weight = 0
    /\ subgraph_weight = 0
    /\ subgraph_metrics = NoMetrics
    /\ node_metrics = <<>>
    /\ failed_calls = {}
    /\ response = NoResponse

NoProcessor == processor = NewProcessor /\ gp_call = NoCall /\ loaded_tables = NoTables

NoConcurrentCalls == calls = <<>> /\ temp_dir = FALSE

\* no request thread tracks a query
NoTracking == tracker = NewTracker /\ threads = <<>> /\ saved_report = NoReport

\* request threads about to call track_query on the new global tracker
InitTracking ==
    /\ tracker = NewTracker
    /\ threads \in [1..MaxThreads -> [pc : {"append"}, key : QueryKeys, count : {0}]]
    /\ saved_report = NoReport

\* a GraphProcessor after its construction
InitProcessor ==
    /\ processor = NewProcessor
    /\ gp_call = GPCall("__init__", NoId, "", "", NoResult)
    /\ loaded_tables = NoTables

\* two threads about to call process_graph_data; 'temp' may be left over
InitConcurrent ==
    /\ calls \in [1..2 -> [pc : {"mkdir"}, request : ConcurrentRequests,
                           outcome : {NoOutcome}, dsn : {""},
                           connection : {"none"}, pooled : {FALSE}]]
    /\ temp_dir \in BOOLEAN

\* one thread about to call process_graph_data with an SQLSource, whose DSN
\* may be the empty string; its ConnectionManager will start with an empty
\* pool
InitSqlCall ==
    /\ calls \in [1..1 -> [pc : {"mkdir"}, request : SqlRequests,
                           outcome : {NoOutcome}, dsn : {"", "dsn"},
                           connection : {"none"}, pooled : {FALSE}]]
    /\ temp_dir \in BOOLEAN

Init ==
    \/ InitCall /\ NoProcessor /\ NoConcurrentCalls /\ NoTracking
    \/ NoCallOfService /\ InitProcessor /\ NoConcurrentCalls /\ NoTracking
    \/ NoCallOfService /\ NoProcessor /\ InitConcurrent /\ NoTracking
    \/ NoCallOfService /\ NoProcessor /\ InitSqlCall /\ NoTracking
    \/ NoCallOfService /\ NoProcessor /\ NoConcurrentCalls /\ InitTracking

Next ==
    \/ LoadData
    \/ Validate
    \/ BuildGraph
    \/ CheckStructure
    \/ ResolveRoot
    \/ NormalizeWeights
    \/ ParseMaxDepth
    \/ BfsLevel
    \/ ExtractSubgraph
    \/ ComputeWeights
    \/ NodeMetrics
    \/ FormatResponse
    \/ \E tables \in GPTables : ProcessDataframes(tables)
    \/ \E node_id \in {a, b, c}, snapshot \in {"2024-01-01", "2024-01-02", "soon"} :
          GetSubgraphWeight(node_id, snapshot)
    \/ \E i \in 1..2 : DataManagerMkdir(i)
    \/ \E i \in 1..2 : DataManagerIsDir(i)
    \/ \E i \in 1..2 : ExecuteQuery(i)
    \/ \E i \in 1..2 : CallBody(i)
    \/ \E i \in 1..2 : Cleanup(i)
    \/ \E t \in 1..MaxThreads : TrackQueryAppend(t)
    \/ \E t \in 1..MaxThreads : TrackQueryRead(t)
    \/ \E t \in 1..MaxThreads : TrackQueryStore(t)
    \/ PeriodicSave

Spec == Init /\ [][Next]_vars

\* the interpreter runs the next statement of a call in progress: the loop of
\* lines 217-224 takes its next iteration, and line 227 follows the loop
FairSpec == Spec /\ WF_vars(BfsLevel) /\ WF_vars(ExtractSubgraph)

\* ------------------------------------------- the route /process_graph
\* routes/graph.py lines 124-161, get_graph_metrics_internal: the node of
\* greatest degree over the edge rows of the snapshot, the first one entered
\* in node_degrees among equals. The edge table of the model is a set, so
\* every order of its rows is possible, and the result is the set of nodes
\* some order yields; the empty set stands for None. The table of a file
\* source is not in the request (vertex_data is None), which the except
\* clause of line 159 turns into None.
InternalRoots(source, snapshot) ==
    LET rows == {r \in source.edge_data : r.snapshot = snapshot}
        ends == {r.vertex_from : r \in rows} \cup {r.vertex_to : r \in rows}
        degree(n) == Cardinality({r \in rows : r.vertex_from = n})
                        + Cardinality({r \in rows : r.vertex_to = n})
        greatest == {n \in ends : \A m \in ends : degree(m) <= degree(n)}
    IN IF source.kind # "data" THEN {}
       ELSE {n \in greatest :
                \E r \in rows : \/ r.vertex_from = n
                                \/ r.vertex_to = n /\ r.vertex_from \notin greatest}

\* routes/graph.py lines 62-82: the GraphRequests the route may hand to
\* process_graph_data for the body req, when line 66 does not raise
RouteRequests(req) ==
    LET md == IF req.params.max_depth.kind = "absent" THEN Absent
              ELSE [kind |-> "int", val |-> ToInt(req.params.max_depth).val]
        roots == IF /\ ParamsTruthy(req.params)
                    /\ req.params.root_node = NoId
                    /\ req.params.snapshot # NoSnapshot
                    /\ InternalRoots(req.source, req.params.snapshot) # {}
                 THEN InternalRoots(req.source, req.params.snapshot)
                 ELSE {req.params.root_node}
    IN {[req EXCEPT !.params.max_depth = md, !.params.root_node = r] : r \in roots}

\* routes/graph.py lines 55-91: what the route gets from process_graph_data,
\* or the error of line 86 when the body is refused before the call
RouteOutcomes(req) ==
    IF req.params.max_depth.kind # "absent" /\ ToInt(req.params.max_depth).raises
    THEN {Raised("invalid_request")}
    ELSE {RunBody(rr) : rr \in RouteRequests(req)}

\* ------------------------------------------------------- claim vocabulary
\* the call has left the extraction loop and holds a subgraph
Extracted == pc \in {"root_weights", "node_metrics", "format", "done"}

\* the vertices at forward-edge distance at most k from v
RECURSIVE Within(_, _, _)
Within(g, v, k) ==
    IF k = 0 THEN {v}
    ELSE LET W == Within(g, v, k - 1)
         IN W \cup {m \in NodeSet(g) : \E n \in W : <<n, m>> \in g.edges}

\* the root was neither in params.root_node nor in node_id
RootNotSupplied == request.node_id = NoId /\ request.params.root_node = NoId

Position(g, n) == CHOOSE i \in DOMAIN g.nodes : g.nodes[i] = n

\* no proper non-empty part of the vertices is closed under the edges taken
\* in both directions
SingleWeakComponent(g) ==
    /\ NodeSet(g) # {}
    /\ \A S \in SUBSET NodeSet(g) :
          (S # {} /\ S # NodeSet(g)) =>
              \E e \in g.edges : (e[1] \in S) # (e[2] \in S)

ClosedPart(g, S) == \A e \in g.edges : (e[1] \in S) = (e[2] \in S)

\* the weak components: the minimal non-empty closed parts
WeakComponentCount(g) ==
    Cardinality({S \in SUBSET NodeSet(g) :
                    /\ S # {}
                    /\ ClosedPart(g, S)
                    /\ \A T \in SUBSET S : (T # {} /\ ClosedPart(g, T)) => T = S})

\* the rows of the request that the graph is built from: those of the target
\* snapshot, or all rows when the request names no snapshot
RowsInScope(rows) ==
    IF request.params.snapshot = NoSnapshot THEN rows
    ELSE {r \in rows : r.snapshot = request.params.snapshot}

\* the vertices an edge row in scope references that have no vertex row in
\* the snapshot of that edge row
DanglingVertices ==
    LET vrows == Range(request.source.vertex_data)
        HasRow(n, sn) == \E v \in vrows : Strip(v.vertex) = n /\ v.snapshot = sn
    IN {n \in UNION {{Strip(r.vertex_from), Strip(r.vertex_to)} :
                        r \in RowsInScope(request.source.edge_data)} :
           \E r \in RowsInScope(request.source.edge_data) :
              /\ n \in {Strip(r.vertex_from), Strip(r.vertex_to)}
              /\ ~HasRow(n, r.snapshot)}

\* --------------------------------------------------------------- claims
\* C1: the subgraph_weight of a completed response is the sum of the weights
\* of all vertices of the extracted subgraph, root included.
C1_SubgraphWeightIsTotal ==
    pc = "done" =>
        response.subgraph_weight =
            SumOver(NodeSet(subgraph), [n \in NodeSet(subgraph) |-> weight_of(subgraph, n)])

\* C2: with max_depth not set, the extracted vertex set is the root together
\* with every vertex reachable from it over one or more forward edges.
C2_UnboundedIsReachableSet ==
    (Extracted /\ request.params.max_depth.kind = "absent") =>
        NodeSet(subgraph) = {root_node} \cup nx_descendants(G, root_node)

C2_Witness ==
    /\ pc = "done"
    /\ request.params.max_depth.kind = "absent"
    /\ Cardinality(NodeSet(subgraph)) >= 3
    /\ \E n \in successors(G, root_node) : root_node \in ForwardReach(G, {n})

\* C3: with max_depth = k, the extracted vertex set is the set of vertices at
\* forward-edge distance at most k from the root (a set that grows with k),
\* and it is the unbounded extraction once no vertex lies farther than k.
C3_BoundedIsDistanceBall ==
    (Extracted /\ request.params.max_depth.kind = "int") =>
        LET k == request.params.max_depth.val
        IN /\ NodeSet(subgraph) = Within(G, root_node, k)
           /\ Within(G, root_node, k + 1) = Within(G, root_node, k) =>
                 NodeSet(subgraph) = {root_node} \cup nx_descendants(G, root_node)

C3_Witness ==
    /\ pc = "done"
    /\ request.params.max_depth = [kind |-> "int", val |-> 1]
    /\ Cardinality(NodeSet(subgraph)) >= 2
    /\ NodeSet(subgraph) # {root_node} \cup nx_descendants(G, root_node)

\* C4: extraction with max_depth = 0 yields the root alone and no edge.
C4_DepthZeroIsRootAlone ==
    (Extracted /\ request.params.max_depth = [kind |-> "int", val |-> 0]) =>
        NodeSet(subgraph) = {root_node} /\ subgraph.edges = {}

\* C5: a request without max_depth is extracted with unbounded depth and does
\* not fail on the depth, whether or not params carries other keys.
C5_MissingDepthIsUnbounded ==
    request.params.max_depth.kind = "absent" =>
        /\ error.kind \notin {"overflow_error", "invalid_max_depth"}
        /\ (pc = "bfs" \/ Extracted) => max_depth.inf

\* C6: the default root has in-degree 0 when some vertex has, has the greatest
\* out-degree among those (among all vertices when none has in-degree 0) and
\* is the first such vertex in insertion order; a single vertex of in-degree 0
\* is the root.
C6_DefaultRoot ==
    (RootNotSupplied /\ root_node # NoId) =>
        LET zero == {n \in NodeSet(G) : in_degree(G, n) = 0}
            pool == IF zero # {} THEN zero ELSE NodeSet(G)
        IN /\ root_node \in pool
           /\ \A m \in pool : out_degree(G, m) <= out_degree(G, root_node)
           /\ \A m \in pool : out_degree(G, m) = out_degree(G, root_node)
                                 => Position(G, root_node) <= Position(G, m)
           /\ Cardinality(zero) = 1 => zero = {root_node}

C6_Witness ==
    /\ pc = "done"
    /\ RootNotSupplied
    /\ Cardinality({n \in NodeSet(G) : in_degree(G, n) = 0}) = 2
    /\ root_node # G.nodes[1]
    /\ \E m \in NodeSet(G) : /\ in_degree(G, m) > 0
                             /\ Position(G, m) < Position(G, root_node)

\* C7: when an edge row references a vertex without a vertex row in the same
\* snapshot, the call ends in one structural error naming every such vertex
\* and returns nothing.
C7_DanglingEdgesFailTogether ==
    DanglingVertices # {} =>
        /\ pc # "done"
        /\ ~response.present
        /\ error.kind \in {"missing_vertices", "invalid_edges"} =>
              DanglingVertices \subseteq {Strip(n) : n \in error.names}

\* C8: a graph for which a root is resolved has a vertex and one weak
\* component; an empty vertex set is an error, and the error for several
\* components reports their number.
C8_RootOnlyOnConnectedGraph ==
    /\ pc \in {"root", "weights", "depth", "bfs"} \/ Extracted \/ root_node # NoId
          => SingleWeakComponent(G)
    /\ error.kind = "empty_graph" => NodeSet(G) = {}
    /\ error.kind = "components" =>
          error.count = WeakComponentCount(G) /\ error.count > 1

C8_Witness ==
    /\ pc = "failed"
    /\ error.kind = "components"
    /\ error.count = 2
    /\ Cardinality(NodeSet(G)) = 3

\* C9: the built graph holds vertices and edges of one snapshot only.
C9_OneSnapshotPerGraph ==
    pc \notin {"load", "validate", "build"} =>
        Cardinality(Range(G.snapshot) \cup {r.snapshot : r \in ValidEdgeRows(G, edge_df)}) <= 1

\* C10: a zero, negative or non-numeric weight does not fail the call; the
\* vertex gets weight 1 and no vertex weight is 0.
C10_BadWeightsDefaultToOne ==
    /\ error.kind \notin {"negative_weights", "non_numeric_weights", "float_conversion"}
    /\ pc = "done" =>
          /\ \A i \in DOMAIN node_metrics : node_metrics[i].Weight > 0
          /\ response.node_weight > 0
          /\ \A i \in DOMAIN vertex_df : \A n \in NodeSet(subgraph) :
                (Strip(vertex_df[i].vertex) = n /\ ParseFloat(vertex_df[i].weight) <= 0
                 /\ \A j \in (i + 1)..Len(vertex_df) : Strip(vertex_df[j].vertex) # n)
                    => weight_of(subgraph, n) = 1

\* the graph of the Timestamp the last GraphProcessor call named, when the
\* processor holds one
CalledSnapshotHeld ==
    /\ IsDateText(gp_call.snapshot)
    /\ to_datetime(gp_call.snapshot) \in DOMAIN processor.snapshots

\* C11: when the resolved root is not a vertex of the built graph, the call
\* fails with a not-found error and holds no subgraph, weight or metric; a
\* get_subgraph_weight for a node that is not in the graph of its snapshot
\* fails and leaves no cache entry for that node.
C11_AbsentRootOrNodeIsNotFound ==
    /\ (root_node # NoId /\ ~has_node(G, root_node)) =>
          /\ pc = "failed"
          /\ error.kind = "root_not_found"
          /\ descendants = {}
          /\ subgraph = EmptyGraph
          /\ node_weight = 0
          /\ subgraph_weight = 0
          /\ subgraph_metrics = NoMetrics
          /\ node_metrics = <<>>
          /\ ~response.present
    /\ (gp_call.op = "get_subgraph_weight" /\ CalledSnapshotHeld) =>
          LET s == to_datetime(gp_call.snapshot)
          IN ~has_node(processor.snapshots[s], gp_call.node_id) =>
                /\ gp_call.error = "node_not_found"
                /\ gp_call.result = NoResult
                /\ gp_call.node_id \notin DOMAIN processor.processed_results[s]

C11_Witness ==
    /\ pc = "failed"
    /\ error.kind = "root_not_found"
    /\ request.params.root_node = b
    /\ Cardinality(NodeSet(G)) = 2
    /\ G.edges # {}

\* a max_depth that is negative or is not an integer: a negative number, a
\* float with a fraction, a string that is not the text of a natural number
InvalidDepth(md) ==
    \/ md.kind = "int" /\ md.val < 0
    \/ md.kind = "float" /\ (md.val < 0 \/ md.val % 10 # 0)
    \/ md.kind = "str" /\ md.val \notin {"0", "1", "2"}

\* routes/graph.py line 66 converts with int() and answers 400 when that
\* raises; the int it passes on is rejected by process_graph_data when negative
RouteRejects(md) == ToInt(md).raises \/ ToInt(md).val < 0

\* C12: a max_depth that is negative or not an integer is rejected by the
\* route and by process_graph_data, and no extraction is made with it.
C12_InvalidDepthIsRejected ==
    InvalidDepth(request.params.max_depth) =>
        /\ pc # "bfs"
        /\ ~Extracted
        /\ RouteRejects(request.params.max_depth)

\* a metric, a node entry or a response exists
MetricsComputed == subgraph_metrics # NoMetrics \/ node_metrics # <<>> \/ response.present

RECURSIVE ClosureOver(_, _)
ClosureOver(E, S) ==
    LET T == S \cup {e[2] : e \in {f \in E : f[1] \in S}}
    IN IF T = S THEN S ELSE ClosureOver(E, T)

\* the weight of n and of every vertex reachable from n over the edges of the
\* extracted subgraph
WeightBelow(n) ==
    LET R == ClosureOver(subgraph.edges, {n})
    IN SumOver(R, [m \in R |-> weight_of(subgraph, m)])

\* C14: every vertex of the extracted subgraph has a node entry and a response
\* node, and the Subgraph_Weight and subgraph_weight reported for it are its
\* weight plus the weights of the vertices reachable from it over the edges of
\* the subgraph.
C14_NodeSubgraphWeightIsLocal ==
    /\ pc \in {"format", "done"} =>
          {node_metrics[i].Node : i \in DOMAIN node_metrics} = NodeSet(subgraph)
    /\ \A i \in DOMAIN node_metrics :
          node_metrics[i].Subgraph_Weight = WeightBelow(node_metrics[i].Node)
    /\ pc = "done" =>
          {response.nodes[i].id : i \in DOMAIN response.nodes} = NodeSet(subgraph)
    /\ \A i \in DOMAIN response.nodes :
          response.nodes[i].subgraph_weight = WeightBelow(response.nodes[i].id)

C14_Witness ==
    /\ pc = "done"
    /\ \E i \in DOMAIN node_metrics :
          LET n == node_metrics[i].Node
          IN /\ n # root_node
             /\ successors(subgraph, n) # {}
             /\ ClosureOver(G.edges, {n}) # ClosureOver(subgraph.edges, {n})
             /\ response.nodes[i].subgraph_weight = node_metrics[i].Subgraph_Weight

\* the extracted subgraph is the induced subgraph of G on the visited set, with
\* the weights G holds
InducedOnVisited ==
    Extracted =>
        /\ NodeSet(subgraph) = descendants
        /\ subgraph.edges = {e \in G.edges : e[1] \in descendants /\ e[2] \in descendants}
        /\ \A n \in NodeSet(subgraph) : weight_of(subgraph, n) = weight_of(G, n)

NodeLoopDone == pc \in {"format", "done"}

\* C16: the eigenvector value of every subgraph vertex comes from the closed
\* form when that does not raise, else from the power iteration with its fixed
\* iteration cap when that does not raise, else from degree centrality; a
\* value is produced for every vertex and the call does not fail.
C16_EigenvectorFallbackChain ==
    NodeLoopDone =>
        /\ error = NoError
        /\ Len(node_metrics) = Len(subgraph.nodes)
        /\ \A i \in DOMAIN node_metrics :
              LET e == node_metrics[i].Eigenvector
              IN /\ "eigenvector_centrality_numpy" \notin failed_calls =>
                       e.by = "eigenvector_centrality_numpy"
                 /\ ("eigenvector_centrality_numpy" \in failed_calls
                        /\ "eigenvector_centrality" \notin failed_calls) =>
                       e.by = "eigenvector_centrality" /\ e.max_iter = max_iter
                 /\ {"eigenvector_centrality_numpy", "eigenvector_centrality"}
                        \subseteq failed_calls =>
                       e.by = "degree_centrality"

C16_Witness ==
    /\ pc = "done"
    /\ {"eigenvector_centrality_numpy", "eigenvector_centrality"} \subseteq failed_calls
    /\ Len(response.node_metrics) = 3
    /\ \A i \in DOMAIN response.node_metrics :
          response.node_metrics[i].Eigenvector.by = "degree_centrality"

\* C17: node_metrics has exactly one entry for each vertex of the extracted
\* subgraph whichever of the calls raise, and a betweenness, closeness or
\* clustering call that raises yields 0.0 for the vertex.
C17_OneEntryPerVertex ==
    NodeLoopDone =>
        /\ error = NoError
        /\ Len(node_metrics) = Cardinality(NodeSet(subgraph))
        /\ {node_metrics[i].Node : i \in DOMAIN node_metrics} = NodeSet(subgraph)
        /\ pc = "done" => response.node_metrics = node_metrics
        /\ \A i \in DOMAIN node_metrics :
              /\ node_metrics[i].Betweenness = "0.0" <=>
                    "betweenness_centrality" \in failed_calls
              /\ node_metrics[i].Closeness = "0.0" <=>
                    "closeness_centrality" \in failed_calls
              /\ node_metrics[i].ClusteringCoeff = "0.0" <=>
                    "clustering" \in failed_calls

C17_Witness ==
    /\ pc = "done"
    /\ failed_calls = {"betweenness_centrality", "clustering"}
    /\ Len(response.node_metrics) = 3
    /\ \A i \in DOMAIN response.node_metrics :
          /\ response.node_metrics[i].Betweenness = "0.0"
          /\ response.node_metrics[i].Closeness = "closeness_centrality"

\* C18: total_nodes and total_edges are the vertex and edge counts of the
\* subgraph, total_edges is at most total_nodes * (total_nodes - 1), the density
\* is total_edges / (total_nodes * (total_nodes - 1)) and lies in [0, 1], and a
\* single-vertex subgraph has density 0.
C18_DensityIsEdgeRatio ==
    pc \in {"node_metrics", "format", "done"} =>
        LET n == subgraph_metrics.total_nodes
            m == subgraph_metrics.total_edges
            d == subgraph_metrics.density
        IN /\ n = Cardinality(NodeSet(subgraph))
           /\ m = Cardinality(subgraph.edges)
           /\ m <= n * (n - 1)
           /\ n = 1 => d.num = 0
           /\ n > 1 => d.num * (n * (n - 1)) = m * d.den
           /\ 0 <= d.num /\ d.num <= d.den

\* the rows of the loaded tables for the Timestamp s
LoadedVertexRows(s) ==
    {r \in Range(loaded_tables.vertex_df) : to_datetime(r.snapshot) = s}

LoadedEdges(s) ==
    {<<r.vertex_from, r.vertex_to>> :
        r \in {q \in Range(loaded_tables.edge_df) : to_datetime(q.snapshot) = s}}

\* the weight the loaded tables give vertex n at s, 0 when they have no row
LoadedWeight(s, n) ==
    IF \E r \in LoadedVertexRows(s) : r.vertex = n
    THEN (CHOOSE r \in LoadedVertexRows(s) : r.vertex = n).weight
    ELSE 0

\* result is what the loaded tables give for node n at Timestamp s
FromLoadedTables(result, s, n) ==
    LET R == ClosureOver(LoadedEdges(s), {n})
    IN /\ LoadedVertexRows(s) # {}
       /\ LoadedEdges(s) # {}
       /\ result.nodes = R
       /\ result.node_weight = LoadedWeight(s, n)
       /\ result.subgraph_weight = SumOver(R, [m \in R |-> LoadedWeight(s, m)])

\* every cache entry, and the result of the last query, is computed from the
\* tables of the last load
CacheIsOfLoadedTables ==
    /\ \A s \in DOMAIN processor.processed_results :
          \A n \in DOMAIN processor.processed_results[s] :
             FromLoadedTables(processor.processed_results[s][n], s, n)
    /\ (gp_call.op = "get_subgraph_weight" /\ gp_call.error = "") =>
          FromLoadedTables(gp_call.result, to_datetime(gp_call.snapshot), gp_call.node_id)

\* a step other than a process_dataframes that returns keeps every entry
EntriesKept ==
    ~(gp_call'.op = "process_dataframes" /\ gp_call'.error = "") =>
        \A s \in DOMAIN processor.processed_results :
           \A n \in DOMAIN processor.processed_results[s] :
              /\ s \in DOMAIN processor'.processed_results
              /\ n \in DOMAIN processor'.processed_results[s]
              /\ processor'.processed_results[s][n] = processor.processed_results[s][n]

\* C19: between two loads no cache entry is overwritten or removed, and after
\* a process_dataframes that returns every cache entry and every query result
\* is computed from the new tables.
C19_CacheWriteOnceAndReset ==
    /\ []CacheIsOfLoadedTables
    /\ [][EntriesKept]_vars

C19_Witness ==
    /\ gp_call.op = "get_subgraph_weight"
    /\ gp_call.error = ""
    /\ gp_call.node_id = a
    /\ gp_call.result.nodes = {a, b}
    /\ gp_call.result.subgraph_weight = 6
    /\ DOMAIN processor.processed_results = {1}

\* the call has ended, by return or by an exception
Ended(call) == call.pc \in {"returned", "raised"}

\* C20: whatever the other call does, a call of process_graph_data that has
\* ended has the outcome its request gives when it runs alone.
C20_ConcurrentCallsAreIndependent ==
    Len(calls) = 2 =>
        \A i \in DOMAIN calls :
           Ended(calls[i]) => calls[i].outcome = RunBody(calls[i].request)

\* every vertex of g reaches every other along the edges
is_strongly_connected(g) ==
    \A n \in NodeSet(g) : NodeSet(g) \subseteq ClosureOver(g.edges, {n})

\* C21: the metrics of a returned response carry average_shortest_path, and
\* its value is null when the subgraph is not strongly connected.
C21_AverageShortestPathReported ==
    pc = "done" =>
        /\ "average_shortest_path" \in DOMAIN response.metrics
        /\ ~is_strongly_connected(subgraph) =>
              response.metrics.average_shortest_path = "null"

\* what the call of process_graph_data has raised or returned
CallOutcome ==
    IF pc = "failed" THEN Raised(error.kind)
    ELSE [error |-> "", nodes |-> NodeSet(subgraph),
          node_weight |-> response.node_weight,
          subgraph_weight |-> response.subgraph_weight]

\* the request with the rows of the other snapshots left out of both tables
RestrictedToTarget(req) ==
    [req EXCEPT !.source.vertex_data = FilterVertices(@, TargetSnapshot(req)),
                !.source.edge_data = FilterEdges(@, TargetSnapshot(req))]

\* C22: with a target snapshot, the call ends as it does on the input that
\* has the target snapshot's rows and no other row.
C22_OnlyTargetSnapshotRowsMatter ==
    (pc \in {"done", "failed"} /\ TargetSnapshot(request) # NoSnapshot) =>
        CallOutcome = RunBody(RestrictedToTarget(request))

\* the iteration takes as its frontier only vertices not visited before, and
\* adds them to the visited set
FrontierIsNew ==
    (pc = "bfs" /\ depth' = depth + 1) =>
        /\ current_level' \cap descendants = {}
        /\ descendants' = descendants \cup current_level'

\* while the loop runs, the frontier is visited, the depth is within
\* max_depth, and every iteration but the last has visited a new vertex
LoopIsBounded ==
    pc = "bfs" =>
        /\ current_level \subseteq descendants
        /\ descendants \subseteq NodeSet(G)
        /\ max_depth.inf \/ depth <= max_depth.val
        /\ depth <= Cardinality(descendants) - (IF current_level = {} THEN 0 ELSE 1)

\* the loop has no further iteration exactly when the frontier is empty or
\* the depth equals max_depth
StopsWhenDone ==
    pc = "bfs" =>
        (~ENABLED BfsLevel <=>
            (current_level = {} \/ (~max_depth.inf /\ depth = max_depth.val)))

\* C23: the extraction loop ends: every frontier is new, the loop stops when
\* the frontier is empty or the depth equals max_depth, and a call that has
\* entered the loop leaves it.
C23_ExtractionLoopTerminates ==
    /\ [][FrontierIsNew]_vars
    /\ [](LoopIsBounded /\ StopsWhenDone)
    /\ (pc = "bfs" ~> pc = "root_weights" \/ pc = "failed")

\* the loop has ended on a cycle, with no bound on the depth
C23_Witness ==
    /\ pc = "root_weights"
    /\ max_depth.inf
    /\ <<a, b>> \in G.edges /\ <<b, a>> \in G.edges
    /\ descendants = NodeSet(G)
    /\ depth = 2

\* C24: in every snapshot graph of the processor the endpoints of every edge
\* have rows in the snapshot's vertex table, every vertex has an entry in
\* vertex_weights, and every cached result is over vertices that have one.
C24_EdgesOnlyBetweenKnownVertices ==
    \A s \in DOMAIN processor.snapshots :
       /\ \A e \in processor.snapshots[s].edges :
             \A n \in {e[1], e[2]} : \E r \in LoadedVertexRows(s) : r.vertex = n
       /\ NodeSet(processor.snapshots[s]) \subseteq DOMAIN processor.vertex_weights[s]
       /\ \A n \in DOMAIN processor.processed_results[s] :
             processor.processed_results[s][n].nodes
                 \subseteq DOMAIN processor.vertex_weights[s]

\* C25: the response names as root, and flags as is_root, the vertex the
\* subgraph was extracted from, which is also metrics.root_node.
C25_ResponseRootIsExtractionRoot ==
    pc = "done" =>
        /\ response.root_node = root_node
        /\ response.metrics.root_node = root_node
        /\ \A i \in DOMAIN response.nodes :
              response.nodes[i].is_root <=> response.nodes[i].id = root_node

\* whether two outcomes are the same extraction, or are both errors
SameExtraction(x, y) ==
    /\ (x.error = "") <=> (y.error = "")
    /\ x.nodes = y.nodes
    /\ x.node_weight = y.node_weight
    /\ x.subgraph_weight = y.subgraph_weight

\* C26: for a request with node_id and without params.root_node, the route
\* ends as the direct call of process_graph_data on the request does.
C26_RouteExtractsFromNodeId ==
    (/\ pc \in {"done", "failed"}
     /\ request.node_id # NoId
     /\ request.params.root_node = NoId) =>
        \A o \in RouteOutcomes(request) : SameExtraction(o, CallOutcome)

\* the greatest forward-edge distance in G from the root to a vertex of the
\* subgraph: the least k such that every vertex of the subgraph is within k
GreatestDistance ==
    CHOOSE k \in 0..Cardinality(NodeSet(G)) :
        /\ NodeSet(subgraph) \subseteq Within(G, root_node, k)
        /\ \A j \in 0..(k - 1) : ~(NodeSet(subgraph) \subseteq Within(G, root_node, j))

\* C27: metrics.depth of a returned response is the greatest forward-edge
\* distance from the root to a vertex of the extracted subgraph.
C27_DepthIsGreatestDistance ==
    pc = "done" => response.metrics.depth = GreatestDistance

\* the weight the processor holds for vertex v at s; a vertex that the graph
\* has from an edge row alone has no entry and counts as 0.0
HeldWeight(s, v) ==
    IF v \in DOMAIN processor.vertex_weights[s]
    THEN processor.vertex_weights[s][v] ELSE 0

\* for every snapshot graph and every vertex v of it the cache holds the
\* result over v and what v reaches
CacheIsComplete ==
    \A s \in DOMAIN processor.snapshots :
       LET graph == processor.snapshots[s]
       IN /\ s \in DOMAIN processor.processed_results
          /\ DOMAIN processor.processed_results[s] = NodeSet(graph)
          /\ \A v \in NodeSet(graph) :
                LET result == processor.processed_results[s][v]
                    reached == ClosureOver(graph.edges, {v})
                IN /\ result.nodes = reached
                   /\ result.node_weight = HeldWeight(s, v)
                   /\ result.subgraph_weight =
                          SumOver(reached, [m \in reached |-> HeldWeight(s, m)])

\* a get_subgraph_weight that returns gives the cached result, and whether it
\* returns or raises it leaves the processor as it was
GetReadsTheCache ==
    gp_call'.op = "get_subgraph_weight" =>
        /\ processor' = processor
        /\ gp_call'.error = "" =>
              gp_call'.result =
                  processor.processed_results[to_datetime(gp_call'.snapshot)][gp_call'.node_id]

Returned == {t \in DOMAIN threads : threads[t].pc = "returned"}

\* no thread is inside track_query
NoCallInProgress == \A t \in DOMAIN threads : threads[t].pc \in {"append", "returned"}

\* C29: once n calls of track_query have returned and none is in progress,
\* the usage report has total_queries = n and popular_subgraphs counts that
\* sum to n.
C29_NoTrackedQueryIsLost ==
    (threads # <<>> /\ NoCallInProgress) =>
        LET report == get_usage_report(tracker)
            counts == report.popular_subgraphs
        IN /\ report.total_queries = Cardinality(Returned)
           /\ SumOver(DOMAIN counts, counts) = Cardinality(Returned)

\* the DataManager of the call was created: the call has passed line 25
Created(call) == call.pc \notin {"mkdir", "is_dir", "raised"}

\* control is back at the caller only through the finally clause
ReturnsThroughCleanup ==
    \A i \in DOMAIN calls :
       (Created(calls[i]) /\ calls[i].pc # "returned" /\ calls'[i].pc = "returned") =>
           /\ calls[i].pc = "finally"
           /\ ~calls'[i].pooled

\* C30: a call of process_graph_data that created its DataManager and has
\* ended, by return or by exception, went through cleanup: its pool is empty
\* and its connection is not open.
C30_CleanupOnEveryExit ==
    /\ [](\A i \in DOMAIN calls :
            (Ended(calls[i]) /\ Created(calls[i])) =>
                /\ ~calls[i].pooled
                /\ calls[i].connection # "open")
    /\ [][ReturnsThroughCleanup]_vars

\* a call whose query raised with the connection pooled and open, ended
C30_Witness ==
    \E i \in DOMAIN calls :
       /\ calls[i].pc = "returned"
       /\ calls[i].outcome = Raised("pyodbc_error")
       /\ calls[i].connection = "closed"
       /\ ~calls[i].pooled

====
